---- MODULE Spec2Model ----
(***************************************************************************)
(* Model of backend/app.py, the Flask route layer of the podcast service.  *)
(*                                                                         *)
(* Every request is handled on a thread of its own (app.run(threaded=True)) *)
(* th[t] holds the locals of the handler running on thread t, together     *)
(* with the trace of what that handler did so far: the files it saved, the *)
(* calls it made to content_parser / voice_manager / podcast_generator and *)
(* the SSE events it yielded, in the order they happened.                  *)
(*                                                                         *)
(* Strings are sequences of tokens (a token is a run of characters that    *)
(* the code never splits), so that strip(), rsplit('.'), the f-string path *)
(* templates and secure_filename() are computed, not assumed.              *)
(***************************************************************************)
EXTENDS Naturals, Sequences, FiniteSets

VARIABLES th, uploads, nextUuid, now, world

vars == <<th, uploads, nextUuid, now, world>>

(* ------------------------------ bounds -------------------------------- *)

\* threads serving requests at the same time (SpecConc)
MaxThreads == 2
\* log lines a parser or the voice manager returns in one result
MaxLogs == 1
\* trace ids the voice manager returns in one result
MaxTraceIds == 1
\* events the podcast generator yields before it ends
MaxStreamEvents == 1
\* seconds that can pass on the wall clock, int(time.time()) from 0
MaxTime == 1

(* ------------------------------ strings ------------------------------- *)

Range(s) == {s[i] : i \in 1..Len(s)}

Last(s) == s[Len(s)]

\* whitespace tokens, as str.strip() and str.split() see them
IsSpace(c) == c = " "

RECURSIVE LStrip(_)
LStrip(s) == IF s # <<>> /\ IsSpace(Head(s)) THEN LStrip(Tail(s)) ELSE s

RECURSIVE RStrip(_)
RStrip(s) ==
    IF s # <<>> /\ IsSpace(Last(s)) THEN RStrip(SubSeq(s, 1, Len(s) - 1)) ELSE s

\* str.strip()
Strip(s) == RStrip(LStrip(s))

\* str.lower() on one token
Lower(c) ==
    CASE c = "PDF" -> "pdf"
      [] c = "WAV" -> "wav"
      [] OTHER -> c

\* position of the last "." of a file name, 0 when it has none
RECURSIVE LastDot(_)
LastDot(s) ==
    IF s = <<>> THEN 0
    ELSE IF Last(s) = "." THEN Len(s)
    ELSE LastDot(SubSeq(s, 1, Len(s) - 1))

\* filename.rsplit('.', 1)[1]
Extension(s) == SubSeq(s, LastDot(s) + 1, Len(s))

ALLOWED_AUDIO_EXTENSIONS == {"wav", "mp3", "flac", "m4a", "ogg"}

ALLOWED_PDF_EXTENSIONS == {"pdf"}

\* allowed_file(filename, allowed_extensions)
allowed_file(filename, allowed_extensions) ==
    /\ "." \in Range(filename)
    /\ Len(Extension(filename)) = 1
    /\ Lower(Extension(filename)[1]) \in allowed_extensions

\* werkzeug's secure_filename: path separators become "_" between the words
\* they separate, then leading and trailing "." and "_" are stripped
SepToUnderscore(s) == [i \in 1..Len(s) |-> IF s[i] = "/" THEN "_" ELSE s[i]]

RECURSIVE StripDots(_)
StripDots(s) ==
    IF s # <<>> /\ Head(s) \in {".", "_"} THEN StripDots(Tail(s))
    ELSE IF s # <<>> /\ Last(s) \in {".", "_"}
         THEN StripDots(SubSeq(s, 1, Len(s) - 1))
    ELSE s

secure_filename(s) == StripDots(SepToUnderscore(s))

(* ------------------------------ values -------------------------------- *)

\* Python None for a path or a file name
NoPath == <<>>

\* the key is not in request.files / request.form
NoFile == <<"<no such key>">>

Absent == "<absent>"

\* what content_parser.merge_contents returns when there is nothing to merge
Placeholder == <<"<no content available>">>

\* config.MINIMAX_API_KEY
MINIMAX_API_KEY == <<"server-key">>

\* str(uuid.uuid4()): the n-th identifier drawn, never the same twice
UuidNames == <<"uuid-1", "uuid-2", "uuid-3", "uuid-4", "uuid-5", "uuid-6">>

Uuid(n) == UuidNames[n]

\* str(int(time.time()))
TimeNames == <<"1000", "1001", "1002", "1003">>

TimeStr(n) == TimeNames[n + 1]

\* a file that is on the server's disk before any request
PreExisting == {<<"output", "/", "old", ".", "wav">>}

(* --------------------------- trace entries ---------------------------- *)

Ev(type, what) == [k |-> "event", n |-> type, a |-> what, r |-> Absent]

Call(name, args, result) == [k |-> "call", n |-> name, a |-> args, r |-> result]

\* file.save(path): kind is "pdf" or "audio", orig the name the client gave
Saved(kind, path, orig) == [k |-> "save", n |-> kind, a |-> path, r |-> orig]

\* for log in result["logs"]: yield a 'log' event
Logs(n, origin) == [i \in 1..n |-> Ev("log", origin)]

\* for key, trace_id in voices_result.get("trace_ids", {}).items(): yield
TraceIds(n) == [i \in 1..n |-> Ev("trace_id", "voice_clone")]

(* ------------------------------ requests ------------------------------ *)

\* a request with every form field, file and JSON member left out
BlankReq ==
    [route |-> "none", api_key |-> <<>>, text |-> <<>>, url |-> <<>>,
     file |-> NoFile, s1type |-> "default", s1audio |-> NoFile,
     s2type |-> "default", s2audio |-> NoFile, session_id |-> NoPath,
     speaker |-> "unknown", filepath |-> NoPath, is_json |-> FALSE]

\* one speaker's form fields: an audio file is sent only with type 'custom'
SpeakerInputs(w) ==
    {<<ty, au>> \in w.speakerTypes \X w.audios : ty = "custom" \/ au = NoFile}

GenerateRequests(w) ==
    {[BlankReq EXCEPT !.route = "generate_podcast", !.api_key = k, !.text = x,
                      !.url = u, !.file = f, !.s1type = a[1], !.s1audio = a[2],
                      !.s2type = b[1], !.s2audio = b[2]] :
        k \in w.keys, x \in w.texts, u \in w.urls, f \in w.pdfs,
        a \in SpeakerInputs(w), b \in SpeakerInputs(w)}

UploadRequests(w) ==
    {[BlankReq EXCEPT !.route = "upload_audio", !.file = f, !.session_id = s,
                      !.speaker = sp] :
        f \in w.recordings, s \in w.sessions, sp \in w.speakers}

CloneRequests(w) ==
    {[BlankReq EXCEPT !.route = "clone_voice", !.is_json = j, !.filepath = p,
                      !.speaker = sp, !.api_key = k] :
        j \in BOOLEAN, p \in w.filepaths, sp \in w.speakers, k \in w.keys}

\* a JSON body carries text_input and url_input, a multipart body the file
ParseRequests(w) ==
    {[BlankReq EXCEPT !.route = "parse_content", !.is_json = TRUE, !.text = x,
                      !.url = u] : x \in w.texts, u \in w.urls}
    \cup {[BlankReq EXCEPT !.route = "parse_content", !.file = f] : f \in w.pdfs}

Requests(w) ==
    GenerateRequests(w) \cup UploadRequests(w) \cup CloneRequests(w)
        \cup ParseRequests(w)

(* ------------------ results of the collaborating modules -------------- *)

\* content_parser.parse_pdf / parse_url: {"success", "content", "logs"} or
\* {"success": False, "error", "logs"}, or an exception
ParseResults(contents) ==
    {[out |-> "ok", content |-> c, logs |-> n] : c \in contents, n \in 0..MaxLogs}
    \cup {[out |-> "fail", content |-> <<>>, logs |-> n] : n \in 0..MaxLogs}
    \cup {[out |-> "raise", content |-> <<>>, logs |-> 0]}

\* voice_manager.prepare_voices: {"success", "speaker1", "speaker2", "logs",
\* "trace_ids"} or {"success": False, "error"}, or an exception
VoiceResults ==
    {[out |-> "ok", logs |-> n, trace_ids |-> m] :
        n \in 0..MaxLogs, m \in 0..MaxTraceIds}
    \cup {[out |-> "fail", logs |-> 0, trace_ids |-> 0],
          [out |-> "raise", logs |-> 0, trace_ids |-> 0]}

\* everything clients send and collaborators answer, one request at a time
FullWorld ==
    [keys |-> {<<>>, <<" ">>, <<"k">>},
     texts |-> {<<>>, <<" ">>, <<"t">>},
     urls |-> {<<>>, <<"http://u">>},
     pdfs |-> {NoFile, <<"d", "/", "a", ".", "PDF">>, <<"a", ".", "exe">>},
     speakerTypes |-> {"default", "custom", "other"},
     audios |-> {NoFile, <<"v", ".", "wav">>, <<"v", ".", "exe">>},
     recordings |-> {NoFile, <<>>, <<"blob">>, <<"v", ".", "exe">>},
     sessions |-> {NoPath, <<"s">>},
     speakers |-> {"speaker1", "speaker2"},
     filepaths |-> {NoPath, <<"missing">>} \cup PreExisting,
     parse |-> ParseResults({<<>>, <<"c">>}),
     voices |-> VoiceResults,
     streamTypes |-> {"complete", "error"},
     maxStream |-> MaxStreamEvents]

(* ------------------------------- state -------------------------------- *)

NoResp == [sent |-> FALSE, success |-> FALSE, content |-> <<>>, error |-> Absent]

\* jsonify({...}) of a route that answers with one JSON object
Json(success, content, error) ==
    [sent |-> TRUE, success |-> success, content |-> content, error |-> error]

\* a thread that has no request yet: every local of every handler unset
IdleThread ==
    [pc |-> "idle", req |-> BlankReq, session_id |-> NoPath,
     user_api_key |-> <<>>, text_input |-> <<>>, url_input |-> <<>>,
     pdf_path |-> NoPath, speaker1_audio_path |-> NoPath,
     speaker2_audio_path |-> NoPath, pdf_content |-> <<>>,
     url_content |-> <<>>, merged_content |-> <<>>, yielded |-> 0,
     trace |-> <<>>, resp |-> NoResp]

InitWith(threads, w) ==
    /\ th = [t \in threads |-> IdleThread]
    /\ uploads = {}
    /\ nextUuid = 1
    /\ now = 0
    /\ world = w

\* one request, handled alone
Init == InitWith({1}, FullWorld)

\* the requests that put a file into the upload directory, with every
\* collaborator answering: what concurrent requests can do to each other's
\* files
UploadWorld ==
    [keys |-> {<<"k">>},
     texts |-> {<<"t">>},
     urls |-> {<<>>},
     pdfs |-> {NoFile, <<"d", "/", "a", ".", "PDF">>},
     speakerTypes |-> {"default", "custom"},
     audios |-> {NoFile, <<"v", ".", "wav">>},
     recordings |-> {<<"blob">>},
     sessions |-> {NoPath, <<"s">>},
     speakers |-> {"speaker1"},
     filepaths |-> PreExisting,
     parse |-> {[out |-> "ok", content |-> <<"c">>, logs |-> 0]},
     voices |-> {[out |-> "ok", logs |-> 0, trace_ids |-> 0]},
     streamTypes |-> {"complete"},
     maxStream |-> 0]

\* a thread per request
InitConc == InitWith(1..MaxThreads, UploadWorld)

Threads == DOMAIN th

Set(t, rec) == th' = [th EXCEPT ![t] = rec]

\* the werkzeug server hands a request to a fresh thread, which enters the
\* view function of the request's route
Arrive(t) ==
    /\ th[t].pc = "idle"
    /\ \E r \in Requests(world) :
          Set(t, [th[t] EXCEPT !.pc = r.route, !.req = r])
    /\ UNCHANGED <<uploads, nextUuid, now, world>>

(* ------------------------ /api/generate_podcast ------------------------ *)

\* the key taken as sent, without .strip()
ExtractApiKey_NoStrip(raw) == raw

\* request.form.get('api_key', '').strip()
ExtractApiKey(raw) == Strip(raw)

\* `if file_obj and allowed_file(file_obj.filename, exts)`: a FileStorage
\* is truthy when it has a file name
AcceptedUpload(file, exts) ==
    file # NoFile /\ file # <<>> /\ allowed_file(file, exts)

\* what one file.save() leaves in the upload directory
UploadOf(t, e) == [path |-> e.a, by |-> t, orig |-> e.r, kind |-> e.n]

\* the view function up to `return Response(generate(), ...)`: the session
\* id, the API key check, and the three uploads saved under UPLOAD_DIR
generate_podcast(t) ==
    /\ th[t].pc = "generate_podcast"
    /\ nextUuid' = nextUuid + 1
    /\ LET r == th[t].req
           session_id == <<Uuid(nextUuid)>>
           user_api_key == ExtractApiKey(r.api_key)
           pdf_path ==
               IF AcceptedUpload(r.file, ALLOWED_PDF_EXTENSIONS)
               THEN session_id \o <<"_">> \o secure_filename(r.file)
               ELSE NoPath
           speaker1_audio_path ==
               IF r.s1type = "custom"
                  /\ AcceptedUpload(r.s1audio, ALLOWED_AUDIO_EXTENSIONS)
               THEN session_id \o <<"_", "speaker1", "_">>
                        \o secure_filename(r.s1audio)
               ELSE NoPath
           speaker2_audio_path ==
               IF r.s2type = "custom"
                  /\ AcceptedUpload(r.s2audio, ALLOWED_AUDIO_EXTENSIONS)
               THEN session_id \o <<"_", "speaker2", "_">>
                        \o secure_filename(r.s2audio)
               ELSE NoPath
           saves ==
               SelectSeq(<<Saved("pdf", pdf_path, r.file),
                           Saved("audio", speaker1_audio_path, r.s1audio),
                           Saved("audio", speaker2_audio_path, r.s2audio)>>,
                         LAMBDA e : e.a # NoPath)
       IN  IF user_api_key = <<>>
           THEN /\ Set(t, [th[t] EXCEPT !.pc = "done",
                              !.session_id = session_id,
                              !.trace = <<Ev("error", "missing_api_key")>>])
                /\ UNCHANGED uploads
           ELSE /\ Set(t, [th[t] EXCEPT !.pc = "parse_pdf",
                              !.session_id = session_id,
                              !.user_api_key = user_api_key,
                              !.text_input = Strip(r.text),
                              !.url_input = Strip(r.url),
                              !.pdf_path = pdf_path,
                              !.speaker1_audio_path = speaker1_audio_path,
                              !.speaker2_audio_path = speaker2_audio_path,
                              !.trace = saves])
                /\ uploads' = uploads \cup {UploadOf(t, saves[i]) :
                                                i \in 1..Len(saves)}
    /\ UNCHANGED <<now, world>>

\* an exception handler that logs and yields nothing
ExceptionEvents_Swallowed == <<>>

\* `except Exception as e:` around the whole generator body
ExceptionEvents == <<Ev("error", "exception")>>

\* generate(), Step 1, first half: the 'parsing_content' event and the PDF
generate_parse_pdf(t) ==
    /\ th[t].pc = "parse_pdf"
    /\ LET s == th[t]
           start == <<Ev("progress", "parsing_content")>>
       IN  IF s.pdf_path = NoPath
           THEN Set(t, [s EXCEPT !.pc = "parse_url", !.trace = @ \o start])
           ELSE \E res \in world.parse :
                  LET pre == start \o <<Ev("log", "pdf_uploaded"),
                                        Call("parse_pdf", s.pdf_path, res.out)>>
                  IN  CASE res.out = "ok" ->
                             Set(t, [s EXCEPT !.pc = "parse_url",
                                        !.pdf_content = res.content,
                                        !.trace = @ \o pre
                                            \o Logs(res.logs, "parse_pdf")])
                        [] res.out = "fail" ->
                             Set(t, [s EXCEPT !.pc = "done",
                                        !.trace = @ \o pre
                                            \o <<Ev("error", "parse_pdf")>>])
                        [] OTHER ->
                             Set(t, [s EXCEPT !.pc = "done",
                                        !.trace = @ \o pre \o ExceptionEvents])
    /\ UNCHANGED <<uploads, nextUuid, now, world>>

\* the URL failure reported as an 'error' event
UrlFailureEvents_AsError(res) ==
    <<Ev("error", "parse_url")>> \o Logs(res.logs, "parse_url")

\* what the stream carries after parse_url answered success=False
UrlFailureEvents(res) ==
    <<Ev("url_parse_warning", "parse_url")>> \o Logs(res.logs, "parse_url")

\* generate(), Step 1, second half: the URL, which may fail without ending
\* the stream
generate_parse_url(t) ==
    /\ th[t].pc = "parse_url"
    /\ LET s == th[t]
       IN  IF s.url_input = <<>>
           THEN Set(t, [s EXCEPT !.pc = "merge"])
           ELSE \E res \in world.parse :
                  LET pre == <<Ev("log", "url_start"),
                               Call("parse_url", s.url_input, res.out)>>
                  IN  CASE res.out = "ok" ->
                             Set(t, [s EXCEPT !.pc = "merge",
                                        !.url_content = res.content,
                                        !.trace = @ \o pre
                                            \o Logs(res.logs, "parse_url")])
                        [] res.out = "fail" ->
                             Set(t, [s EXCEPT !.pc = "merge",
                                        !.trace = @ \o pre
                                            \o UrlFailureEvents(res)])
                        [] OTHER ->
                             Set(t, [s EXCEPT !.pc = "done",
                                        !.trace = @ \o pre \o ExceptionEvents])
    /\ UNCHANGED <<uploads, nextUuid, now, world>>

\* the text sources that carry something, in the order they are merged
Parts(text, url, pdf) == SelectSeq(<<text, url, pdf>>, LAMBDA x : x # <<>>)

RECURSIVE Concat(_)
Concat(parts) == IF parts = <<>> THEN <<>> ELSE Head(parts) \o Concat(Tail(parts))

\* content_parser.merge_contents: the sources concatenated into one blob;
\* with nothing to merge, the empty string or the placeholder the routes
\* compare the result with
merge_contents(text, url, pdf) ==
    IF Parts(text, url, pdf) = <<>> THEN {<<>>, Placeholder}
    ELSE {Concat(Parts(text, url, pdf))}

\* `if not merged_content or merged_content == "没有可用的内容"`
generate_missing_content(merged_content) ==
    merged_content = <<>> \/ merged_content = Placeholder

\* generate(), end of Step 1: merge, and give up when there is no content
generate_merge(t) ==
    /\ th[t].pc = "merge"
    /\ LET s == th[t]
       IN  \E m \in merge_contents(s.text_input, s.url_content, s.pdf_content) :
             LET call == <<Call("merge_contents",
                                <<s.text_input, s.url_content, s.pdf_content>>,
                                m)>>
             IN  IF generate_missing_content(m)
                 THEN Set(t, [s EXCEPT !.pc = "done", !.merged_content = m,
                                 !.trace = @ \o call
                                     \o <<Ev("error", "no_content")>>])
                 ELSE Set(t, [s EXCEPT !.pc = "voices", !.merged_content = m,
                                 !.trace = @ \o call
                                     \o <<Ev("log", "content_parsed")>>])
    /\ UNCHANGED <<uploads, nextUuid, now, world>>

\* speakerN_config as built in Step 2: {"type": ...} plus "voice_name" for
\* 'default', plus "audio_file" for 'custom'; a dict key never set is Absent
\* (voice_name) or NoPath (audio_file)
SpeakerConfig(type, voice_name, audio_path) ==
    [type |-> type,
     voice_name |-> IF type = "default" THEN voice_name ELSE Absent,
     audio_file |-> IF type = "custom" THEN audio_path ELSE NoPath]

\* the `else: yield error; return` of a custom speaker without saved audio
SpeakerRejected(type, audio_path) == type = "custom" /\ audio_path = NoPath

\* the 'SpeakerN 音频已上传' log of a custom speaker
SpeakerEvents(type, who) ==
    IF type = "custom" THEN <<Ev("log", who)>> ELSE <<>>

\* the result of prepare_voices used without looking at "success"
VoicesFailed_Ignored(res) == FALSE

\* `if not voices_result["success"]`
VoicesFailed(res) == res.out = "fail"

\* generate(), Step 2 and the call that opens Step 3: the speaker
\* configurations, prepare_voices, and generate_podcast_stream(...)
generate_voices(t) ==
    /\ th[t].pc = "voices"
    /\ LET s == th[t]
           r == s.req
           start == <<Ev("progress", "preparing_voices")>>
           speaker1_config ==
               SpeakerConfig(r.s1type, "mini", s.speaker1_audio_path)
           speaker2_config ==
               SpeakerConfig(r.s2type, "max", s.speaker2_audio_path)
       IN  IF SpeakerRejected(r.s1type, s.speaker1_audio_path)
           THEN Set(t, [s EXCEPT !.pc = "done",
                           !.trace = @ \o start
                               \o <<Ev("error", "speaker1_no_audio")>>])
           ELSE IF SpeakerRejected(r.s2type, s.speaker2_audio_path)
           THEN Set(t, [s EXCEPT !.pc = "done",
                           !.trace = @ \o start
                               \o SpeakerEvents(r.s1type, "speaker1")
                               \o <<Ev("error", "speaker2_no_audio")>>])
           ELSE \E res \in world.voices :
                  LET pre == start \o SpeakerEvents(r.s1type, "speaker1")
                                 \o SpeakerEvents(r.s2type, "speaker2")
                                 \o <<Call("prepare_voices",
                                           [speaker1 |-> speaker1_config,
                                            speaker2 |-> speaker2_config,
                                            api_key |-> s.user_api_key],
                                           res.out)>>
                  IN  CASE res.out = "raise" ->
                             Set(t, [s EXCEPT !.pc = "done",
                                        !.trace = @ \o pre \o ExceptionEvents])
                        [] VoicesFailed(res) ->
                             Set(t, [s EXCEPT !.pc = "done",
                                        !.trace = @ \o pre
                                            \o <<Ev("error", "prepare_voices")>>])
                        [] OTHER ->
                             Set(t, [s EXCEPT !.pc = "streaming",
                                        !.trace = @ \o pre
                                            \o Logs(res.logs, "prepare_voices")
                                            \o TraceIds(res.trace_ids)
                                            \o <<Call("generate_podcast_stream",
                                                      [content |-> s.merged_content,
                                                       session_id |-> s.session_id,
                                                       api_key |-> s.user_api_key],
                                                      "generator")>>])
    /\ UNCHANGED <<uploads, nextUuid, now, world>>

\* generate(), Step 3: one turn of `for event in ...: yield`: the generator
\* yields an event, is exhausted, or raises
generate_stream(t) ==
    /\ th[t].pc = "streaming"
    /\ LET s == th[t]
       IN  \E o \in world.streamTypes \cup {"<exhausted>", "<raise>"} :
             CASE o = "<exhausted>" -> Set(t, [s EXCEPT !.pc = "done"])
               [] o = "<raise>" ->
                    Set(t, [s EXCEPT !.pc = "done",
                               !.trace = @ \o ExceptionEvents])
               [] OTHER ->
                    /\ s.yielded < world.maxStream
                    /\ Set(t, [s EXCEPT !.yielded = @ + 1,
                                  !.trace = @ \o <<Ev(o, "podcast_generator")>>])
    /\ UNCHANGED <<uploads, nextUuid, now, world>>

(* -------------------- /api/upload_audio, /api/upload-audio ------------- *)

\* int(time.time()): the clock never runs backwards between two readings
ClockReadings == now..MaxTime

\* the whole view function: the recording is saved under a name made of
\* the session id of the form (a fresh uuid when the form has none), the
\* speaker and the second of the save
upload_audio(t) ==
    /\ th[t].pc = "upload_audio"
    /\ LET s == th[t]
           r == s.req
       IN  IF r.file = NoFile
           THEN /\ Set(t, [s EXCEPT !.pc = "done",
                              !.resp = Json(FALSE, <<>>, "no_audio")])
                /\ UNCHANGED <<uploads, nextUuid, now>>
           ELSE IF r.file = <<>>
           THEN /\ Set(t, [s EXCEPT !.pc = "done",
                              !.resp = Json(FALSE, <<>>, "audio_empty")])
                /\ UNCHANGED <<uploads, nextUuid, now>>
           ELSE \E tm \in ClockReadings :
                  LET session_id ==
                          IF r.session_id = NoPath THEN <<Uuid(nextUuid)>>
                          ELSE r.session_id
                      filename ==
                          session_id
                              \o <<"_", r.speaker, "_", TimeStr(tm), ".", "wav">>
                      file_path == filename
                      save == Saved("audio", file_path, r.file)
                  IN  /\ Set(t, [s EXCEPT !.pc = "done",
                                    !.session_id = session_id,
                                    !.trace = <<save>>,
                                    !.resp = Json(TRUE, file_path, Absent)])
                      /\ uploads' = uploads \cup {UploadOf(t, save)}
                      /\ nextUuid' = nextUuid + 1
                      /\ now' = tm
    /\ UNCHANGED world

(* --------------------------- /api/clone-voice -------------------------- *)

\* os.path.exists(filepath)
Exists(filepath) == filepath \in PreExisting \cup {u.path : u \in uploads}

\* data.get('api_key', ''), replaced by the configured key when empty
CloneApiKey(raw) == IF raw = <<>> THEN MINIMAX_API_KEY ELSE raw

\* the whole view function
clone_voice(t) ==
    /\ th[t].pc = "clone_voice"
    /\ LET s == th[t]
           r == s.req
           voice_config ==
               [type |-> "custom", voice_name |-> Absent,
                audio_file |-> r.filepath]
           default_config ==
               [type |-> "default", voice_name |-> "mini",
                audio_file |-> NoPath]
           user_api_key == CloneApiKey(r.api_key)
           args ==
               IF r.speaker = "speaker1"
               THEN [speaker1 |-> voice_config, speaker2 |-> default_config,
                     api_key |-> user_api_key]
               ELSE [speaker1 |-> default_config, speaker2 |-> voice_config,
                     api_key |-> user_api_key]
       IN  IF ~r.is_json
           THEN Set(t, [s EXCEPT !.pc = "done",
                           !.resp = Json(FALSE, <<>>, "empty_request")])
           ELSE IF r.filepath = NoPath \/ ~Exists(r.filepath)
           THEN Set(t, [s EXCEPT !.pc = "done",
                           !.resp = Json(FALSE, <<>>, "no_such_file")])
           ELSE \E res \in world.voices :
                  Set(t, [s EXCEPT !.pc = "done",
                             !.user_api_key = user_api_key,
                             !.trace = <<Call("prepare_voices", args, res.out)>>,
                             !.resp =
                                 CASE res.out = "raise" ->
                                        Json(FALSE, <<>>, "exception")
                                   [] res.out = "fail" ->
                                        Json(FALSE, <<>>, "clone_failed")
                                   [] OTHER -> Json(TRUE, <<"voice-id">>, Absent)])
    /\ UNCHANGED <<uploads, nextUuid, now, world>>

(* -------------------------- /api/parse-content ------------------------- *)

\* the result a parser call that is never made leaves behind: content ""
NotParsed == [out |-> "ok", content |-> <<>>, logs |-> 0]

\* `if not merged_content or merged_content == ""`
parse_missing_content(merged_content) == merged_content = <<>>

\* the whole view function: the URL, then the PDF (saved under the second
\* of the save and its own name), then the merge
parse_content(t) ==
    /\ th[t].pc = "parse_content"
    /\ LET s == th[t]
           r == s.req
           text_input == r.text
           url_input == r.url
           has_url == url_input # <<>>
           has_pdf == r.file # NoFile /\ r.file # <<>>
       IN  \E ures \in (IF has_url THEN world.parse ELSE {NotParsed}) :
           LET url_returned == ures.out # "ok"
               pdf_reached == ~url_returned /\ has_pdf
           IN  \E pres \in (IF pdf_reached THEN world.parse ELSE {NotParsed}),
                  tm \in (IF pdf_reached THEN ClockReadings ELSE {now}) :
               LET pdf_returned == pres.out # "ok"
                   merge_reached == ~url_returned /\ ~pdf_returned
                   pdf_path == <<TimeStr(tm), "_">> \o secure_filename(r.file)
                   save == Saved("pdf", pdf_path, r.file)
               IN  \E m \in (IF merge_reached
                             THEN merge_contents(text_input, ures.content,
                                                 pres.content)
                             ELSE {<<>>}) :
                   /\ Set(t, [s EXCEPT
                          !.pc = "done",
                          !.text_input = text_input,
                          !.url_input = url_input,
                          !.url_content = ures.content,
                          !.pdf_content = pres.content,
                          !.pdf_path = IF pdf_reached THEN pdf_path ELSE NoPath,
                          !.merged_content = m,
                          !.trace =
                              (IF has_url
                               THEN <<Call("parse_url", url_input, ures.out)>>
                               ELSE <<>>)
                              \o (IF pdf_reached
                                  THEN <<save,
                                         Call("parse_pdf", pdf_path, pres.out)>>
                                  ELSE <<>>)
                              \o (IF merge_reached
                                  THEN <<Call("merge_contents",
                                              <<text_input, ures.content,
                                                pres.content>>, m)>>
                                  ELSE <<>>),
                          !.resp =
                              CASE ures.out = "raise" \/ pres.out = "raise" ->
                                     Json(FALSE, <<>>, "server_error")
                                [] ures.out = "fail" ->
                                     Json(FALSE, <<>>, "parse_url")
                                [] pres.out = "fail" ->
                                     Json(FALSE, <<>>, "parse_pdf")
                                [] parse_missing_content(m) ->
                                     Json(FALSE, <<>>, "no_content")
                                [] OTHER -> Json(TRUE, m, Absent)])
                   /\ uploads' = IF pdf_reached
                                 THEN uploads \cup {UploadOf(t, save)}
                                 ELSE uploads
                   /\ now' = tm
    /\ UNCHANGED <<nextUuid, world>>

(* --------------------------- specifications ---------------------------- *)

Next ==
    \/ \E t \in 1..MaxThreads : t \in Threads /\ Arrive(t)
    \/ \E t \in 1..MaxThreads : t \in Threads /\ generate_podcast(t)
    \/ \E t \in 1..MaxThreads : t \in Threads /\ generate_parse_pdf(t)
    \/ \E t \in 1..MaxThreads : t \in Threads /\ generate_parse_url(t)
    \/ \E t \in 1..MaxThreads : t \in Threads /\ generate_merge(t)
    \/ \E t \in 1..MaxThreads : t \in Threads /\ generate_voices(t)
    \/ \E t \in 1..MaxThreads : t \in Threads /\ generate_stream(t)
    \/ \E t \in 1..MaxThreads : t \in Threads /\ upload_audio(t)
    \/ \E t \in 1..MaxThreads : t \in Threads /\ clone_voice(t)
    \/ \E t \in 1..MaxThreads : t \in Threads /\ parse_content(t)

\* one request of any kind, handled alone
Spec == Init /\ [][Next]_vars

\* MaxThreads requests handled at the same time, their steps interleaved
SpecConc == InitConc /\ [][Next]_vars

(* ------------------------- reading the traces -------------------------- *)

IsEvent(e, type) == e.k = "event" /\ e.n = type

IsProgress(e, step) == e.k = "event" /\ e.n = "progress" /\ e.a = step

IsCall(e, name) == e.k = "call" /\ e.n = name

\* an 'error' event the route itself yields, not one the generator passes on
IsRouteError(e) == IsEvent(e, "error") /\ e.a # "podcast_generator"

Handles(t, route) == th[t].req.route = route

HasCall(tr, name) == \E i \in 1..Len(tr) : IsCall(tr[i], name)

\* the step of the pipeline a trace entry belongs to, 0 for an event
Stage(e) ==
    CASE e.k = "save" -> 1
      [] IsCall(e, "parse_pdf") \/ IsCall(e, "parse_url") -> 2
      [] IsCall(e, "merge_contents") -> 3
      [] IsCall(e, "prepare_voices") -> 4
      [] IsCall(e, "generate_podcast_stream") -> 5
      [] OTHER -> 0

\* the stages of the calls and saves of a trace, in trace order
Stages(tr) ==
    SelectSeq([i \in 1..Len(tr) |-> Stage(tr[i])], LAMBDA n : n > 0)

\* the pipeline order of one /api/generate_podcast trace
PipelineOrder(tr) ==
    /\ LET st == Stages(tr)
       IN  \A i \in 1..(Len(st) - 1) : st[i] <= st[i + 1]
    /\ \A j \in 2..Len(tr) : tr[j].k = "save" => tr[j - 1].k = "save"
    /\ LET events == SelectSeq(tr, LAMBDA e : e.k = "event")
       IN  events # <<>> => IsProgress(events[1], "parsing_content")
    /\ \A j \in 1..Len(tr) :
          IsCall(tr[j], "prepare_voices")
              => \E i \in 1..(j - 1) : IsProgress(tr[i], "preparing_voices")
    /\ \A j \in 1..Len(tr) :
          IsCall(tr[j], "generate_podcast_stream")
              => /\ \E i \in 1..(j - 1) :
                       IsCall(tr[i], "prepare_voices") /\ tr[i].r = "ok"
                 /\ \E i \in 1..(j - 1) :
                       IsCall(tr[i], "merge_contents") /\ tr[i].r # <<>>

(* ------------------------------- claims -------------------------------- *)

\* C1, as stated: in every /api/generate_podcast request the trace keeps the
\* order save uploads -> parse -> merge -> prepare_voices ->
\* generate_podcast_stream, its first event is 'parsing_content',
\* 'preparing_voices' precedes the prepare_voices call, and the generator is
\* called only after prepare_voices succeeded and the merge was non-empty
C1_EveryRequestInOrder ==
    \A t \in Threads :
        Handles(t, "generate_podcast") => PipelineOrder(th[t].trace)

\* C1, amended: the same order, for every /api/generate_podcast request
\* whose api_key is not blank after stripping
C1_KeyedRequestInOrder ==
    \A t \in Threads :
        Handles(t, "generate_podcast") /\ Strip(th[t].req.api_key) # <<>>
            => PipelineOrder(th[t].trace)

\* C1 witness: a request that saved an upload and went through every step
C1_Witness ==
    \E t \in Threads :
        /\ Handles(t, "generate_podcast")
        /\ \E i \in 1..Len(th[t].trace) : th[t].trace[i].k = "save"
        /\ HasCall(th[t].trace, "parse_pdf")
        /\ HasCall(th[t].trace, "parse_url")
        /\ HasCall(th[t].trace, "generate_podcast_stream")

\* C2: in the /api/generate_podcast stream a failed parse_url is followed
\* by a 'url_parse_warning' event and then only the parser's log events up
\* to the merge_contents call, which gets an empty url content; no route
\* error is among them, and with text or PDF content the stream goes on to
\* voice preparation
C2_UrlFailureGoesOn ==
    \A t \in Threads :
        Handles(t, "generate_podcast") =>
            LET tr == th[t].trace
            IN  \A i \in 1..Len(tr) :
                    IsCall(tr[i], "parse_url") /\ tr[i].r = "fail" =>
                        /\ i < Len(tr)
                        /\ IsEvent(tr[i + 1], "url_parse_warning")
                        /\ th[t].url_content = <<>>
                        /\ \/ /\ th[t].pc = "merge"
                              /\ \A h \in (i + 2)..Len(tr) :
                                    IsEvent(tr[h], "log") /\ tr[h].a = "parse_url"
                           \/ \E j \in (i + 2)..Len(tr) :
                                 /\ IsCall(tr[j], "merge_contents")
                                 /\ tr[j].a[2] = <<>>
                                 /\ \A h \in (i + 2)..(j - 1) :
                                       IsEvent(tr[h], "log")
                                           /\ tr[h].a = "parse_url"
                        /\ th[t].text_input # <<>> \/ th[t].pdf_content # <<>>
                              => \/ th[t].pc \in {"merge", "voices"}
                                 \/ \E j \in 1..Len(tr) :
                                       IsProgress(tr[j], "preparing_voices")

\* C2 witness: the URL failed with a log line, there is text, and the
\* stream has reached voice preparation
C2_Witness ==
    \E t \in Threads :
        /\ Handles(t, "generate_podcast")
        /\ th[t].text_input # <<>>
        /\ \E i \in 1..Len(th[t].trace) :
              /\ IsCall(th[t].trace[i], "parse_url")
              /\ th[t].trace[i].r = "fail"
              /\ i + 2 <= Len(th[t].trace)
              /\ IsEvent(th[t].trace[i + 2], "log")
        /\ \E j \in 1..Len(th[t].trace) :
              IsProgress(th[t].trace[j], "preparing_voices")

\* C3: a finished /api/parse-content request whose parse_url failed and
\* whose text_input is non-empty answers success=true with the remaining
\* content merged
C3_ParseContentSurvivesUrlFailure ==
    \A t \in Threads :
        /\ Handles(t, "parse_content")
        /\ th[t].pc = "done"
        /\ Strip(th[t].req.text) # <<>>
        /\ \E i \in 1..Len(th[t].trace) :
              IsCall(th[t].trace[i], "parse_url") /\ th[t].trace[i].r = "fail"
        => /\ th[t].resp.success
           /\ th[t].resp.content
                  \in merge_contents(th[t].req.text, <<>>, th[t].pdf_content)

\* C4: every call of prepare_voices or generate_podcast_stream made for a
\* /api/generate_podcast or /api/clone-voice request comes from a request
\* that carries a non-empty api_key, and passes that key
C4_OnlyCallerKey ==
    \A t \in Threads :
        Handles(t, "generate_podcast") \/ Handles(t, "clone_voice") =>
            \A i \in 1..Len(th[t].trace) :
                IsCall(th[t].trace[i], "prepare_voices")
                    \/ IsCall(th[t].trace[i], "generate_podcast_stream")
                => /\ th[t].req.api_key # <<>>
                   /\ th[t].trace[i].a.api_key
                          \in {th[t].req.api_key, Strip(th[t].req.api_key)}

\* C5: every file in the upload directory has a client file name that
\* passes allowed_file for its kind
C5_OnlyAllowedExtensionsSaved ==
    \A u \in uploads :
        allowed_file(u.orig,
                     IF u.kind = "pdf" THEN ALLOWED_PDF_EXTENSIONS
                     ELSE ALLOWED_AUDIO_EXTENSIONS)

\* C6: two different requests never save an upload to the same path
C6_NoSharedUploadPath ==
    \A u, v \in uploads : u.by # v.by => u.path # v.path

\* one of the two tagged forms: 'default' with a voice_name, or 'custom'
\* with the path of an audio file this request saved
TaggedForm(c, t) ==
    \/ c.type = "default" /\ c.voice_name # Absent
    \/ /\ c.type = "custom"
       /\ c.audio_file # NoPath
       /\ \E u \in uploads : u.by = t /\ u.path = c.audio_file

\* C7: both speaker configurations of every prepare_voices call made by
\* /api/generate_podcast are of a tagged form
C7_SpeakerConfigsTagged ==
    \A t \in Threads :
        Handles(t, "generate_podcast") =>
            \A i \in 1..Len(th[t].trace) :
                IsCall(th[t].trace[i], "prepare_voices")
                => /\ TaggedForm(th[t].trace[i].a.speaker1, t)
                   /\ TaggedForm(th[t].trace[i].a.speaker2, t)

\* C8: a route 'error' event is always the last entry of its trace and the
\* stream is over with it; and a /api/generate_podcast stream that is over
\* without a generate_podcast_stream call ends with a route 'error' event,
\* the only 'error' event of the stream
C8_OneFinalError ==
    \A t \in Threads :
        Handles(t, "generate_podcast") =>
            LET tr == th[t].trace
            IN  /\ \A i \in 1..Len(tr) :
                      IsRouteError(tr[i]) => i = Len(tr) /\ th[t].pc = "done"
                /\ th[t].pc = "done" /\ ~HasCall(tr, "generate_podcast_stream")
                      => /\ tr # <<>>
                         /\ IsRouteError(Last(tr))
                         /\ Cardinality({i \in 1..Len(tr) :
                                            IsEvent(tr[i], "error")}) = 1

\* C8 witness: a stream ended by an exception of prepare_voices
C8_Witness ==
    \E t \in Threads :
        /\ Handles(t, "generate_podcast")
        /\ th[t].pc = "done"
        /\ \E i \in 1..Len(th[t].trace) :
              IsCall(th[t].trace[i], "prepare_voices")
                  /\ th[t].trace[i].r = "raise"
        /\ Last(th[t].trace) = Ev("error", "exception")

\* C9: a /api/generate_podcast request whose api_key is blank after
\* stripping never gets past the view function, and when it is over it has
\* saved nothing, called nothing, and its stream is one 'error' event
C9_BlankKeyChangesNothing ==
    \A t \in Threads :
        Handles(t, "generate_podcast") /\ Strip(th[t].req.api_key) = <<>> =>
            /\ th[t].pc \in {"generate_podcast", "done"}
            /\ {u \in uploads : u.by = t} = {}
            /\ th[t].pc = "done"
                  => th[t].trace = <<Ev("error", "missing_api_key")>>

\* C9 witness: a finished request with a whitespace key, an acceptable PDF
\* and an acceptable speaker audio
C9_Witness ==
    \E t \in Threads :
        /\ Handles(t, "generate_podcast")
        /\ th[t].pc = "done"
        /\ th[t].req.api_key = <<" ">>
        /\ AcceptedUpload(th[t].req.file, ALLOWED_PDF_EXTENSIONS)
        /\ th[t].req.s1type = "custom"
        /\ AcceptedUpload(th[t].req.s1audio, ALLOWED_AUDIO_EXTENSIONS)

\* C10: a finished /api/parse-content request that merged answers
\* success=false exactly when /api/generate_podcast would emit its
\* 'provide at least one input' error for the same merged content, and
\* never hands out the placeholder as parsed content
C10_SameMissingInputTest ==
    \A t \in Threads :
        /\ Handles(t, "parse_content")
        /\ th[t].pc = "done"
        /\ HasCall(th[t].trace, "merge_contents")
        => /\ ~th[t].resp.success
                  <=> generate_missing_content(th[t].merged_content)
           /\ ~(th[t].resp.success /\ th[t].resp.content = Placeholder)

====
